---- MODULE Spec2Model ----
(***************************************************************************)
(* A model of solution.h: the handle intrusive_ptr<T> and the counter base *)
(* intrusive_ref_counter<T> with its two hooks intrusive_ptr_add_ref and   *)
(* intrusive_ptr_release.                                                  *)
(*                                                                         *)
(* Pointees are heap objects of a class Derived that inherits from a class *)
(* Base, which inherits from intrusive_ref_counter.  Handle 1 is an        *)
(* intrusive_ptr<Derived>, every other handle is an intrusive_ptr<Base>,   *)
(* so the converting (covariant) members go from handle 1 to the others    *)
(* and the same-type members act between the others (or on one handle).    *)
(***************************************************************************)
EXTENDS Integers, FiniteSets, Sequences, TLC

\* ---------------------------------------------------------------- bounds
NumPointees == 2
NumHandles == 3
MaxDetached == 1
NumThreads == 2
MaxIter == 2

\* ------------------------------------------------------------- universes
NULL == 0
Pointees == 1..NumPointees
Pointers == {NULL} \cup Pointees
Handles == 1..NumHandles
DerivedHandle == 1
Tmp == 0

Threads == 1..NumThreads

IsDerived(h) == h = DerivedHandle
SameType(h, r) == IsDerived(h) = IsDerived(r)
Convertible(r, h) == IsDerived(r) /\ ~IsDerived(h)

\* The counter is a 32-bit unsigned int.  A value v of the model stands for
\* the unsigned value v when v >= 0 and for v + 2^32 when v < 0, so that the
\* arithmetic below is arithmetic modulo 2^32.
IntMax == 2147483647
IntMin == (-2147483647) - 1

UIntInc(v) == IF v = IntMax THEN IntMin ELSE v + 1
UIntDec(v) == IF v = IntMin THEN IntMax ELSE v - 1

VARIABLES
    m_pointer,      \* handle -> the pointer it holds
    live,           \* the handle objects that exist
    counter,        \* pointee -> intrusive_ref_counter::counter
    alive,          \* pointee -> it is constructed and not yet deleted
    destroyed,      \* pointee -> how many times delete ran on it
    ub,             \* a hook ran on a pointee that is not alive
    detachedRefs,   \* pointee -> raw pointers handed out by detach() and
                    \*            not yet adopted by a handle
    last,           \* the operation that produced this state
    watch,          \* the operations that last records by name
    pc,             \* thread -> where it is in the member it is running
    iter            \* thread -> the rounds of its copy loop it has begun

vars == <<m_pointer, live, counter, alive, destroyed, ub, detachedRefs, last,
          watch, pc, iter>>

\* ------------------------------------------------ the program state as a value
St == [m_pointer |-> m_pointer, live |-> live, counter |-> counter,
       alive |-> alive, destroyed |-> destroyed, ub |-> ub]

Commit(S) ==
    /\ m_pointer' = S.m_pointer
    /\ live' = S.live
    /\ counter' = S.counter
    /\ alive' = S.alive
    /\ destroyed' = S.destroyed
    /\ ub' = S.ub

\* The operation that produced the state, by name when it is one of watch and
\* as "other" when not; "again" flips when the same record would repeat, so
\* that no operation is a stuttering step.
Tag(name) == IF name \in watch THEN name ELSE "other"

Op(name) == [op |-> Tag(name), again |-> (last.op = Tag(name) /\ ~last.again)]

\* An assignment of the pointer p to the handle h that already holds it is
\* recorded as such where the specification watches for that case.
SameTag(name, h, p) ==
    IF "same_pointer" \in watch /\ p # NULL /\ m_pointer[h] = p
    THEN "same_pointer"
    ELSE name

\* What a comparison in its four forms (x == y, x != y, y == x, y != x)
\* returned.
CmpTag(eq, ne, eq_rev, ne_rev) ==
    IF eq /\ ~ne /\ eq_rev /\ ~ne_rev THEN "cmp_equal"
    ELSE IF ~eq /\ ne /\ ~eq_rev /\ ne_rev THEN "cmp_unequal"
    ELSE "cmp_mixed"

\* An operation whose source pointer p is null is recorded as such where the
\* specification watches for that case.
NullTag(name, p) ==
    IF "null_source" \in watch /\ p = NULL THEN "null_source" ELSE name

\* --------------------------------------------------- intrusive_ref_counter
use_count(S, p) == S.counter[p]

\* A copy constructor that copies the member: the new instance starts at
\* the source's count.
ref_counter_copy_ctor_copies_count(S, q, p) ==
    [S EXCEPT !.alive[q] = TRUE, !.counter[q] = S.counter[p]]

\* intrusive_ref_counter(const intrusive_ref_counter&) noexcept {}: the new
\* instance q takes nothing from p, its counter is initialised to 0.
ref_counter_copy_ctor(S, q, p) ==
    [S EXCEPT !.alive[q] = TRUE, !.counter[q] = 0]

\* operator=(const intrusive_ref_counter&): return *this.
ref_counter_copy_assign(S, q, p) == S

intrusive_ptr_add_ref(S, p) ==
    IF S.alive[p]
    THEN [S EXCEPT !.counter[p] = UIntInc(@)]
    ELSE [S EXCEPT !.ub = TRUE]

Delete(S, p) == [S EXCEPT !.alive[p] = FALSE, !.destroyed[p] = @ + 1]

\* --p->counter: one atomic read-modify-write.
decrement(S, p) == [S EXCEPT !.counter[p] = UIntDec(@)]

\* if (p->counter-- == 0): the test reads the value before the decrement.
release_post_decrement(S, p) ==
    IF S.alive[p]
    THEN LET S1 == decrement(S, p)
         IN  IF S.counter[p] = 0 THEN Delete(S1, p) ELSE S1
    ELSE [S EXCEPT !.ub = TRUE]

intrusive_ptr_release(S, p) ==
    IF S.alive[p]
    THEN LET S1 == decrement(S, p)
         IN  IF S1.counter[p] = 0 THEN Delete(S1, p) ELSE S1
    ELSE [S EXCEPT !.ub = TRUE]

\* ------------------------------------------------------------ intrusive_ptr
get(S, h) == S.m_pointer[h]

Construct(S, h, p) == [S EXCEPT !.live = @ \cup {h}, !.m_pointer[h] = p]

ctor_default(S, h) == Construct(S, h, NULL)

\* The flag is not read: the increment always happens.
ctor_raw_always_add_ref(S, h, p, add_ref) ==
    LET S1 == Construct(S, h, p)
    IN  IF S1.m_pointer[h] # NULL
        THEN intrusive_ptr_add_ref(S1, S1.m_pointer[h])
        ELSE S1

\* The flag is not read: the increment never happens.
ctor_raw_never_add_ref(S, h, p, add_ref) == Construct(S, h, p)

ctor_raw(S, h, p, add_ref) ==
    LET S1 == Construct(S, h, p)
    IN  IF S1.m_pointer[h] # NULL /\ add_ref
        THEN intrusive_ptr_add_ref(S1, S1.m_pointer[h])
        ELSE S1

ctor_copy(S, h, r) ==
    LET S1 == Construct(S, h, S.m_pointer[r])
    IN  IF S1.m_pointer[h] # NULL
        THEN intrusive_ptr_add_ref(S1, S1.m_pointer[h])
        ELSE S1

\* The converting copy forgets the increment.
ctor_copy_conv_no_add_ref(S, h, r) == Construct(S, h, get(S, r))

ctor_copy_conv(S, h, r) ==
    LET S1 == Construct(S, h, get(S, r))
    IN  IF S1.m_pointer[h] # NULL
        THEN intrusive_ptr_add_ref(S1, S1.m_pointer[h])
        ELSE S1

\* detach() written like reset(): it releases the reference it hands out.
detach_releasing(S, h) ==
    IF S.m_pointer[h] # NULL
    THEN [intrusive_ptr_release(S, S.m_pointer[h]) EXCEPT !.m_pointer[h] = NULL]
    ELSE S

detach(S, h) == [S EXCEPT !.m_pointer[h] = NULL]

\* No move constructor: the copy constructor is chosen instead.
ctor_move_as_copy(S, h, r) == ctor_copy(S, h, r)

\* r.m_pointer = nullptr is forgotten.
ctor_move_keeps_source(S, h, r) == Construct(S, h, S.m_pointer[r])

ctor_move(S, h, r) ==
    LET S1 == Construct(S, h, S.m_pointer[r])
    IN  [S1 EXCEPT !.m_pointer[r] = NULL]

ctor_move_conv(S, h, r) ==
    LET S1 == Construct(S, h, get(S, r))
    IN  detach(S1, r)

\* The storage of a destroyed handle is gone: the model keeps NULL there.
Destruct(S, h) == [S EXCEPT !.live = @ \ {h}, !.m_pointer[h] = NULL]

\* The destructor forgets to release.
dtor_no_release(S, h) == Destruct(S, h)

dtor(S, h) ==
    LET S1 == IF S.m_pointer[h] # NULL
              THEN intrusive_ptr_release(S, S.m_pointer[h])
              ELSE S
    IN  Destruct(S1, h)

\* Only the first of the two assignments of the exchange is made.
swap_one_way(S, a, b) == [S EXCEPT !.m_pointer[a] = S.m_pointer[b]]

swap(S, a, b) ==
    [S EXCEPT !.m_pointer[a] = S.m_pointer[b], !.m_pointer[b] = S.m_pointer[a]]

assign_copy(S, h, r) ==
    IF S.m_pointer[r] # S.m_pointer[h]
    THEN dtor(swap(ctor_copy(S, Tmp, r), Tmp, h), Tmp)
    ELSE S

assign_copy_conv(S, h, r) == dtor(swap(ctor_copy_conv(S, Tmp, r), Tmp, h), Tmp)

\* The old pointee is released before the new one is acquired.
assign_raw_release_first(S, h, p) ==
    LET S1 == IF S.m_pointer[h] # NULL
              THEN intrusive_ptr_release(S, S.m_pointer[h])
              ELSE S
        S2 == [S1 EXCEPT !.m_pointer[h] = p]
    IN  IF p # NULL THEN intrusive_ptr_add_ref(S2, p) ELSE S2

assign_raw(S, h, p) == dtor(swap(ctor_raw(S, Tmp, p, TRUE), Tmp, h), Tmp)

assign_move(S, h, r) ==
    IF S.m_pointer[r] # S.m_pointer[h]
    THEN dtor(swap(ctor_move(S, Tmp, r), Tmp, h), Tmp)
    ELSE S

assign_move_conv(S, h, r) == dtor(swap(ctor_move_conv(S, Tmp, r), Tmp, h), Tmp)

reset(S, h) ==
    IF S.m_pointer[h] # NULL
    THEN LET S1 == intrusive_ptr_release(S, S.m_pointer[h])
         IN  [S1 EXCEPT !.m_pointer[h] = NULL]
    ELSE S

\* reset(nullptr) returns at once: the held pointee is not released.
reset_raw_null_is_noop(S, h, p) ==
    IF p = NULL THEN S ELSE dtor(swap(ctor_raw(S, Tmp, p, TRUE), Tmp, h), Tmp)

reset_raw(S, h, p) == dtor(swap(ctor_raw(S, Tmp, p, TRUE), Tmp, h), Tmp)

\* reset(T* r, bool) forwards to reset(T* r): the flag is dropped.
reset_raw_flag_drops_flag(S, h, p, add_ref) == reset_raw(S, h, p)

reset_raw_flag(S, h, p, add_ref) ==
    dtor(swap(ctor_raw(S, Tmp, p, add_ref), Tmp, h), Tmp)

\* h = intrusive_ptr(p, add_ref): the caller's temporary Tmp2 is constructed
\* from the raw pointer, move-assigned to h, and destroyed at the end of the
\* full expression.
Tmp2 == -1

WithTmp2(S) ==
    [S EXCEPT !.m_pointer = [x \in DOMAIN S.m_pointer \cup {Tmp2} |->
                                IF x = Tmp2 THEN NULL ELSE S.m_pointer[x]]]

WithoutTmp2(S) ==
    [S EXCEPT !.m_pointer = [x \in DOMAIN S.m_pointer \ {Tmp2} |->
                                S.m_pointer[x]]]

assign_temporary(S, h, p, add_ref) ==
    LET S1 == ctor_raw(WithTmp2(S), Tmp2, p, add_ref)
        S2 == assign_move(S1, h, Tmp2)
    IN  WithoutTmp2(dtor(S2, Tmp2))

\* ------------------------------------------------------------ comparisons
op_eq(S, a, b) == get(S, a) = get(S, b)

op_ne(S, a, b) == get(S, a) # get(S, b)

op_eq_raw(S, a, p) == get(S, a) = p

\* Written by copying operator== and not turning the comparison round.
op_ne_raw_copied_from_eq(S, a, p) == get(S, a) = p

op_ne_raw(S, a, p) == get(S, a) # p

op_raw_eq(S, p, b) == p = get(S, b)

op_raw_ne(S, p, b) == p # get(S, b)

\* ------------------------------------------------------------ the caller
\* A raw pointer the caller may pass: null, or a pointee that is alive.
RawPointers == {NULL} \cup {p \in Pointees : alive[p]}

\* Passing add_ref = false hands the handle a reference the caller holds:
\* here, one that detach() handed out.
MayAdopt(p) == p # NULL /\ detachedRefs[p] > 0

MayPass(p, add_ref) == IF add_ref THEN TRUE ELSE IF p = NULL THEN TRUE ELSE MayAdopt(p)

RECURSIVE SumUpTo(_, _)
SumUpTo(f, n) == IF n = 0 THEN 0 ELSE f[n] + SumUpTo(f, n - 1)

MayDetach(p) == IF p = NULL THEN TRUE ELSE SumUpTo(detachedRefs, NumPointees) < MaxDetached

Adopted(p, add_ref) ==
    IF p # NULL /\ ~add_ref
    THEN [detachedRefs EXCEPT ![p] = @ - 1]
    ELSE detachedRefs

\* --------------------------------------------------------------- actions
\* Every pointee has been allocated (new Derived: the counter base starts at
\* 0) and no handle exists yet.
InitProgram ==
    /\ m_pointer = [h \in Handles \cup {Tmp} |-> NULL]
    /\ live = {}
    /\ counter = [p \in Pointees |-> 0]
    /\ alive = [p \in Pointees |-> TRUE]
    /\ destroyed = [p \in Pointees |-> 0]
    /\ ub = FALSE
    /\ detachedRefs = [p \in Pointees |-> 0]
    /\ last = [op |-> "init", again |-> FALSE]

Idle == [at |-> "idle", h |-> Tmp, op |-> "none", val |-> 0]

InitSequential ==
    /\ InitProgram
    /\ pc = [t \in Threads |-> Idle]
    /\ iter = [t \in Threads |-> 0]

Init == InitSequential /\ watch = {}

MoveOps == {"ctor_move", "ctor_move_conv", "assign_move", "assign_move_conv"}
CopyOps == {"ctor_copy", "ctor_copy_conv", "dtor", "reset"}
AssignOps == {"same_pointer", "assign_move_conv"}
RawOps == {"detach", "ctor_raw", "ctor_raw_adopt"}
NullOps == {"null_source"}
SwapOps == {"swap"}
ResetOps == {"reset_raw_adopt"}
CmpOps == {"cmp_equal", "cmp_unequal", "cmp_mixed"}
BaseOps == {"ref_counter_copy_ctor", "ref_counter_copy_assign"}

InitMove == InitSequential /\ watch = MoveOps
InitCopy == InitSequential /\ watch = CopyOps
InitAssign == InitSequential /\ watch = AssignOps
InitRaw == InitSequential /\ watch = RawOps
InitNull == InitSequential /\ watch = NullOps
InitSwap == InitSequential /\ watch = SwapOps
InitCompare == InitSequential /\ watch = CmpOps
InitReset == InitSequential /\ watch = ResetOps

CtorDefault(h) ==
    /\ ~ub /\ h \notin live
    /\ last' = Op("ctor_default")
    /\ Commit(ctor_default(St, h))
    /\ UNCHANGED <<watch, pc, iter>>
    /\ UNCHANGED detachedRefs

CtorRaw(h, p, add_ref) ==
    /\ ~ub /\ h \notin live
    /\ last' = Op(NullTag(IF add_ref THEN "ctor_raw" ELSE "ctor_raw_adopt", p))
    /\ p \in RawPointers
    /\ MayPass(p, add_ref)
    /\ Commit(ctor_raw(St, h, p, add_ref))
    /\ detachedRefs' = Adopted(p, add_ref)
    /\ UNCHANGED <<watch, pc, iter>>

CtorCopy(h, r) ==
    /\ ~ub /\ h \notin live /\ r \in live /\ SameType(h, r)
    /\ last' = Op(NullTag("ctor_copy", m_pointer[r]))
    /\ Commit(ctor_copy(St, h, r))
    /\ UNCHANGED <<watch, pc, iter>>
    /\ UNCHANGED detachedRefs

CtorCopyConv(h, r) ==
    /\ ~ub /\ h \notin live /\ r \in live /\ Convertible(r, h)
    /\ last' = Op(NullTag("ctor_copy_conv", m_pointer[r]))
    /\ Commit(ctor_copy_conv(St, h, r))
    /\ UNCHANGED <<watch, pc, iter>>
    /\ UNCHANGED detachedRefs

CtorMove(h, r) ==
    /\ ~ub /\ h \notin live /\ r \in live /\ SameType(h, r)
    /\ last' = Op(NullTag("ctor_move", m_pointer[r]))
    /\ Commit(ctor_move(St, h, r))
    /\ UNCHANGED <<watch, pc, iter>>
    /\ UNCHANGED detachedRefs

CtorMoveConv(h, r) ==
    /\ ~ub /\ h \notin live /\ r \in live /\ Convertible(r, h)
    /\ last' = Op(NullTag("ctor_move_conv", m_pointer[r]))
    /\ Commit(ctor_move_conv(St, h, r))
    /\ UNCHANGED <<watch, pc, iter>>
    /\ UNCHANGED detachedRefs

Dtor(h) ==
    /\ ~ub /\ h \in live
    /\ last' = Op(NullTag("dtor", m_pointer[h]))
    /\ Commit(dtor(St, h))
    /\ UNCHANGED <<watch, pc, iter>>
    /\ UNCHANGED detachedRefs

AssignCopy(h, r) ==
    /\ ~ub /\ h \in live /\ r \in live /\ SameType(h, r)
    /\ last' = Op(SameTag(NullTag("assign_copy", m_pointer[r]), h, m_pointer[r]))
    /\ Commit(assign_copy(St, h, r))
    /\ UNCHANGED <<watch, pc, iter>>
    /\ UNCHANGED detachedRefs

AssignCopyConv(h, r) ==
    /\ ~ub /\ h \in live /\ r \in live /\ Convertible(r, h)
    /\ last' = Op(SameTag(NullTag("assign_copy_conv", m_pointer[r]), h, m_pointer[r]))
    /\ Commit(assign_copy_conv(St, h, r))
    /\ UNCHANGED <<watch, pc, iter>>
    /\ UNCHANGED detachedRefs

AssignRaw(h, p) ==
    /\ ~ub /\ h \in live
    /\ last' = Op(SameTag(NullTag("assign_raw", p), h, p))
    /\ p \in RawPointers
    /\ Commit(assign_raw(St, h, p))
    /\ UNCHANGED <<watch, pc, iter>>
    /\ UNCHANGED detachedRefs

AssignMove(h, r) ==
    /\ ~ub /\ h \in live /\ r \in live /\ SameType(h, r)
    /\ last' = Op(SameTag(NullTag("assign_move", m_pointer[r]), h, m_pointer[r]))
    /\ Commit(assign_move(St, h, r))
    /\ UNCHANGED <<watch, pc, iter>>
    /\ UNCHANGED detachedRefs

AssignMoveConv(h, r) ==
    /\ ~ub /\ h \in live /\ r \in live /\ Convertible(r, h)
    /\ last' = Op(NullTag("assign_move_conv", m_pointer[r]))
    /\ Commit(assign_move_conv(St, h, r))
    /\ UNCHANGED <<watch, pc, iter>>
    /\ UNCHANGED detachedRefs

Reset(h) ==
    /\ ~ub /\ h \in live
    /\ last' = Op(NullTag("reset", m_pointer[h]))
    /\ Commit(reset(St, h))
    /\ UNCHANGED <<watch, pc, iter>>
    /\ UNCHANGED detachedRefs

ResetRaw(h, p) ==
    /\ ~ub /\ h \in live
    /\ last' = Op(SameTag(NullTag("reset_raw", p), h, p))
    /\ p \in RawPointers
    /\ Commit(reset_raw(St, h, p))
    /\ UNCHANGED <<watch, pc, iter>>
    /\ UNCHANGED detachedRefs

ResetRawFlag(h, p, add_ref) ==
    /\ ~ub /\ h \in live
    /\ last' = Op(NullTag(IF add_ref THEN "reset_raw_flag" ELSE "reset_raw_adopt", p))
    /\ p \in RawPointers
    /\ MayPass(p, add_ref)
    /\ Commit(reset_raw_flag(St, h, p, add_ref))
    /\ detachedRefs' = Adopted(p, add_ref)
    /\ UNCHANGED <<watch, pc, iter>>

\* detach() returns the pointer: the caller now holds that reference.
Detach(h) ==
    /\ ~ub /\ h \in live
    /\ last' = Op("detach")
    /\ MayDetach(m_pointer[h])
    /\ Commit(detach(St, h))
    /\ detachedRefs' = IF m_pointer[h] # NULL
                       THEN [detachedRefs EXCEPT ![m_pointer[h]] = @ + 1]
                       ELSE detachedRefs
    /\ UNCHANGED <<watch, pc, iter>>

Swap(a, b) ==
    /\ ~ub /\ a \in live /\ b \in live /\ SameType(a, b)
    /\ last' = Op("swap")
    /\ Commit(swap(St, a, b))
    /\ UNCHANGED <<watch, pc, iter>>
    /\ UNCHANGED detachedRefs

\* The members a caller runs who never calls detach().
NextAttached ==
    \/ \E h \in Handles : CtorDefault(h)
    \/ \E h \in Handles, p \in Pointers, f \in BOOLEAN : CtorRaw(h, p, f)
    \/ \E h, r \in Handles : CtorCopy(h, r)
    \/ \E h, r \in Handles : CtorCopyConv(h, r)
    \/ \E h, r \in Handles : CtorMove(h, r)
    \/ \E h, r \in Handles : CtorMoveConv(h, r)
    \/ \E h \in Handles : Dtor(h)
    \/ \E h, r \in Handles : AssignCopy(h, r)
    \/ \E h, r \in Handles : AssignCopyConv(h, r)
    \/ \E h \in Handles, p \in Pointers : AssignRaw(h, p)
    \/ \E h, r \in Handles : AssignMove(h, r)
    \/ \E h, r \in Handles : AssignMoveConv(h, r)
    \/ \E h \in Handles : Reset(h)
    \/ \E h \in Handles, p \in Pointers : ResetRaw(h, p)
    \/ \E h \in Handles, p \in Pointers, f \in BOOLEAN : ResetRawFlag(h, p, f)
    \/ \E a, b \in Handles : Swap(a, b)

Next ==
    \/ NextAttached
    \/ \E h \in Handles : Detach(h)

Spec == Init /\ [][Next]_vars
SpecMove == InitMove /\ [][Next]_vars
SpecCopy == InitCopy /\ [][Next]_vars
SpecAssign == InitAssign /\ [][Next]_vars
SpecRaw == InitRaw /\ [][Next]_vars
SpecNull == InitNull /\ [][NextAttached]_vars
SpecSwap == InitSwap /\ [][Next]_vars
SpecReset == InitReset /\ [][Next]_vars

\* ================================================================ threads
\* Each thread owns two handle objects of its own, Own(t) and Loc(t), all of
\* type intrusive_ptr<Base>, and runs the members on them one shared-memory
\* access at a time.  At the start thread t holds SharedPointee in Own(t).
Own(t) == 2 * t - 1
Loc(t) == 2 * t
Mine(t) == {Own(t), Loc(t)}
ThreadHandles == UNION {Mine(t) : t \in Threads}
SharedPointee == CHOOSE p \in Pointees : TRUE

At(t, label) == ~ub /\ pc[t].at = label

Goto(t, label, h, op, val) ==
    pc' = [pc EXCEPT ![t] = [at |-> label, h |-> h, op |-> op, val |-> val]]

Return(t) == pc' = [pc EXCEPT ![t] = Idle]

ThreadFrame == UNCHANGED <<detachedRefs, last, watch>>

InLoop(t) == iter' = [iter EXCEPT ![t] = @ + 1]

InitThreads ==
    /\ m_pointer = [h \in ThreadHandles \cup {Tmp} |->
                       IF \E t \in Threads : h = Own(t)
                       THEN SharedPointee ELSE NULL]
    /\ live = {Own(t) : t \in Threads}
    /\ counter = [p \in Pointees |-> IF p = SharedPointee THEN NumThreads ELSE 0]
    /\ alive = [p \in Pointees |-> TRUE]
    /\ destroyed = [p \in Pointees |-> 0]
    /\ ub = FALSE
    /\ detachedRefs = [p \in Pointees |-> 0]
    /\ last = [op |-> "init", again |-> FALSE]
    /\ watch = {}
    /\ pc = [t \in Threads |-> Idle]
    /\ iter = [t \in Threads |-> 0]

\* intrusive_ptr(intrusive_ptr const& r) : m_pointer(r.m_pointer)
CopyInit(t, h, r) ==
    /\ At(t, "idle")
    /\ h \in Mine(t) /\ r \in Mine(t) /\ h \notin live /\ r \in live
    /\ Commit(Construct(St, h, m_pointer[r]))
    /\ IF m_pointer[r] # NULL
       THEN Goto(t, "add_ref", h, "ctor_copy", 0)
       ELSE Return(t)
    /\ ThreadFrame

ThreadCopyCtor(t, h, r) == CopyInit(t, h, r) /\ UNCHANGED iter

\* One round of the loop  for (...) { intrusive_ptr local(own); }  begins.
LoopCopyCtor(t) ==
    /\ iter[t] < MaxIter
    /\ CopyInit(t, Loc(t), Own(t))
    /\ InLoop(t)

\* The round ends: the local copy goes out of scope.
LoopDtor(t) ==
    /\ At(t, "idle")
    /\ Loc(t) \in live
    /\ Goto(t, "release", Loc(t), "dtor", 0)
    /\ UNCHANGED <<m_pointer, live, counter, alive, destroyed, ub, iter>>
    /\ ThreadFrame

\* The counter is a plain unsigned int: the increment is a load and a store.
ThreadAddRefRacy(t) ==
    /\ \/ /\ At(t, "add_ref")
          /\ Goto(t, "add_ref_store", pc[t].h, pc[t].op,
                  counter[m_pointer[pc[t].h]])
          /\ UNCHANGED counter
       \/ /\ At(t, "add_ref_store")
          /\ counter' = [counter EXCEPT ![m_pointer[pc[t].h]] = UIntInc(pc[t].val)]
          /\ Return(t)
    /\ UNCHANGED <<m_pointer, live, alive, destroyed, ub, iter>>
    /\ ThreadFrame

\* ++p->counter: one atomic read-modify-write.
ThreadAddRef(t) ==
    /\ At(t, "add_ref")
    /\ Commit(intrusive_ptr_add_ref(St, m_pointer[pc[t].h]))
    /\ Return(t)
    /\ ThreadFrame
    /\ UNCHANGED iter

\* intrusive_ptr(intrusive_ptr&& r): touches the two handles only.
ThreadMoveCtor(t, h, r) ==
    /\ At(t, "idle")
    /\ h \in Mine(t) /\ r \in Mine(t) /\ h \notin live /\ r \in live
    /\ Commit(ctor_move(St, h, r))
    /\ Return(t)
    /\ ThreadFrame
    /\ UNCHANGED iter

\* ~intrusive_ptr(): if (m_pointer != nullptr) intrusive_ptr_release(m_pointer)
ThreadDtor(t, h) ==
    /\ At(t, "idle")
    /\ h \in Mine(t) /\ h \in live
    /\ IF m_pointer[h] # NULL
       THEN /\ Goto(t, "release", h, "dtor", 0)
            /\ UNCHANGED <<m_pointer, live, counter, alive, destroyed, ub>>
       ELSE /\ Commit(Destruct(St, h))
            /\ Return(t)
    /\ ThreadFrame
    /\ UNCHANGED iter

\* reset(): if (m_pointer != nullptr) { intrusive_ptr_release(m_pointer); ... }
ThreadReset(t, h) ==
    /\ At(t, "idle")
    /\ h \in Mine(t) /\ h \in live
    /\ m_pointer[h] # NULL
    /\ Goto(t, "release", h, "reset", 0)
    /\ UNCHANGED <<m_pointer, live, counter, alive, destroyed, ub>>
    /\ ThreadFrame
    /\ UNCHANGED iter

\* The counter is a plain unsigned int: the decrement is a load and a store.
ThreadReleaseRacy(t) ==
    /\ \/ /\ At(t, "release")
          /\ Goto(t, "release_store", pc[t].h, pc[t].op,
                  counter[m_pointer[pc[t].h]])
          /\ UNCHANGED counter
       \/ /\ At(t, "release_store")
          /\ counter' = [counter EXCEPT ![m_pointer[pc[t].h]] = UIntDec(pc[t].val)]
          /\ Goto(t, "test", pc[t].h, pc[t].op, UIntDec(pc[t].val))
    /\ UNCHANGED <<m_pointer, live, alive, destroyed, ub, iter>>
    /\ ThreadFrame

\* --p->counter: the atomic decrement hands the thread the new value.
ThreadRelease(t) ==
    /\ At(t, "release")
    /\ LET p == m_pointer[pc[t].h]
       IN  IF alive[p]
           THEN /\ Commit(decrement(St, p))
                /\ Goto(t, "test", pc[t].h, pc[t].op, decrement(St, p).counter[p])
           ELSE /\ Commit([St EXCEPT !.ub = TRUE])
                /\ UNCHANGED pc
    /\ ThreadFrame
    /\ UNCHANGED iter

\* What follows the return of intrusive_ptr_release in the member at hand:
\* the destructor is over and the handle is gone; reset() goes on to clear.
AfterRelease(t, S) ==
    IF pc[t].op = "dtor"
    THEN Commit(Destruct(S, pc[t].h)) /\ Return(t)
    ELSE Commit(S) /\ Goto(t, "clear", pc[t].h, pc[t].op, 0)

\* if (... == 0): the thread compares the value its decrement returned.
ThreadTest(t) ==
    /\ At(t, "test")
    /\ IF pc[t].val = 0
       THEN /\ Goto(t, "delete", pc[t].h, pc[t].op, 0)
            /\ UNCHANGED <<m_pointer, live, counter, alive, destroyed, ub>>
       ELSE AfterRelease(t, St)
    /\ ThreadFrame
    /\ UNCHANGED iter

\* delete static_cast<const Derived*>(p)
ThreadDelete(t) ==
    /\ At(t, "delete")
    /\ LET p == m_pointer[pc[t].h]
       IN  IF alive[p]
           THEN AfterRelease(t, Delete(St, p))
           ELSE /\ Commit([St EXCEPT !.ub = TRUE])
                /\ UNCHANGED pc
    /\ ThreadFrame
    /\ UNCHANGED iter

\* reset() returns without clearing the pointer.
ThreadClearForgotten(t) ==
    /\ At(t, "clear")
    /\ Commit(St)
    /\ Return(t)
    /\ ThreadFrame
    /\ UNCHANGED iter

\* reset(): m_pointer = nullptr
ThreadClear(t) ==
    /\ At(t, "clear")
    /\ Commit([St EXCEPT !.m_pointer[pc[t].h] = NULL])
    /\ Return(t)
    /\ ThreadFrame
    /\ UNCHANGED iter

\* operator*, operator->: a use of the pointee through the handle.
ThreadDeref(t, h) ==
    /\ At(t, "idle")
    /\ h \in Mine(t) /\ h \in live
    /\ m_pointer[h] # NULL
    /\ ub' = ~alive[m_pointer[h]]
    /\ UNCHANGED <<m_pointer, live, counter, alive, destroyed, pc>>
    /\ ThreadFrame
    /\ UNCHANGED iter

NextThreads ==
    \/ \E t \in Threads, h, r \in ThreadHandles : ThreadCopyCtor(t, h, r)
    \/ \E t \in Threads : ThreadAddRef(t)
    \/ \E t \in Threads, h, r \in ThreadHandles : ThreadMoveCtor(t, h, r)
    \/ \E t \in Threads, h \in ThreadHandles : ThreadDtor(t, h)
    \/ \E t \in Threads, h \in ThreadHandles : ThreadReset(t, h)
    \/ \E t \in Threads : ThreadRelease(t)
    \/ \E t \in Threads : ThreadTest(t)
    \/ \E t \in Threads : ThreadDelete(t)
    \/ \E t \in Threads : ThreadClear(t)
    \/ \E t \in Threads, h \in ThreadHandles : ThreadDeref(t, h)

SpecThreads == InitThreads /\ [][NextThreads]_vars

\* The two-thread scenario: each thread runs MaxIter rounds of copying its own
\* handle into a local one and destroying the local one.
NextCopyLoop ==
    \/ \E t \in Threads : LoopCopyCtor(t)
    \/ \E t \in Threads : ThreadAddRef(t)
    \/ \E t \in Threads : LoopDtor(t)
    \/ \E t \in Threads : ThreadRelease(t)
    \/ \E t \in Threads : ThreadTest(t)

SpecCopyLoop == InitThreads /\ [][NextCopyLoop]_vars

\* --------------------------------------------------- one shared handle
\* The handle H of thread Owner holds the only reference to SharedPointee.
\* The other threads copy-construct their handles from H while Owner resets
\* or destroys it, with nothing that orders the two.
Owner == 1
H == Own(Owner)

InitShared ==
    /\ m_pointer = [h \in ThreadHandles \cup {Tmp} |->
                       IF h = H THEN SharedPointee ELSE NULL]
    /\ live = {H}
    /\ counter = [p \in Pointees |-> IF p = SharedPointee THEN 1 ELSE 0]
    /\ alive = [p \in Pointees |-> TRUE]
    /\ destroyed = [p \in Pointees |-> 0]
    /\ ub = FALSE
    /\ detachedRefs = [p \in Pointees |-> 0]
    /\ last = [op |-> "init", again |-> FALSE]
    /\ watch = {}
    /\ pc = [t \in Threads |-> Idle]
    /\ iter = [t \in Threads |-> 0]

\* intrusive_ptr(intrusive_ptr const& r) : m_pointer(r.m_pointer), r being
\* the handle of another thread: the read of r.m_pointer is one step, the
\* increment that follows is another.
SharedCopyCtor(t, h, r) ==
    /\ At(t, "idle")
    /\ t # Owner /\ r = H
    /\ h \in Mine(t) /\ h \notin live /\ r \in live
    /\ Commit(Construct(St, h, m_pointer[r]))
    /\ IF m_pointer[r] # NULL
       THEN Goto(t, "add_ref", h, "ctor_copy", 0)
       ELSE Return(t)
    /\ ThreadFrame
    /\ UNCHANGED iter

NextShared ==
    \/ \E t \in Threads, h, r \in ThreadHandles : SharedCopyCtor(t, h, r)
    \/ \E t \in Threads : ThreadAddRef(t)
    \/ \E t \in Threads, h \in ThreadHandles : ThreadDtor(t, h)
    \/ \E t \in Threads, h \in ThreadHandles : ThreadReset(t, h)
    \/ \E t \in Threads : ThreadRelease(t)
    \/ \E t \in Threads : ThreadTest(t)
    \/ \E t \in Threads : ThreadDelete(t)
    \/ \E t \in Threads : ThreadClear(t)

SpecShared == InitShared /\ [][NextShared]_vars

\* ========================================================== step by step
\* One caller runs the members one statement at a time.  Pointee p has a
\* member  intrusive_ptr next,  the handle Member(p): it is constructed empty
\* with p and its destructor runs when p is deleted.  The other handles are
\* the caller's own objects.
Main == 1
Member(p) == p
MemberHandles == {Member(p) : p \in Pointees}
OwnHandles == Handles \ MemberHandles

ReplacingOps == {"assign_copy", "assign_copy_conv", "assign_raw", "reset_raw",
                 "reset_raw_flag"}

\* Every pointee has been allocated, its member handle with it, and the
\* caller has no handle yet.
InitSteps ==
    /\ m_pointer = [h \in Handles \cup {Tmp} |-> NULL]
    /\ live = MemberHandles
    /\ counter = [p \in Pointees |-> 0]
    /\ alive = [p \in Pointees |-> TRUE]
    /\ destroyed = [p \in Pointees |-> 0]
    /\ ub = FALSE
    /\ detachedRefs = [p \in Pointees |-> 0]
    /\ last = [op |-> "init", again |-> FALSE]
    /\ watch = {}
    /\ pc = [t \in Threads |-> Idle]
    /\ iter = [t \in Threads |-> 0]

StepFrame == ThreadFrame /\ UNCHANGED iter

\* The destructors that were running have run to their end: the storage of
\* every handle that is gone holds nothing.
Unwind(S) ==
    [S EXCEPT !.m_pointer = [x \in DOMAIN S.m_pointer |->
                                IF x \in S.live THEN S.m_pointer[x] ELSE NULL]]

\* intrusive_ptr(T* p, bool add_ref = true) on a handle of the caller.
StepCtorRaw(h, p) ==
    /\ At(Main, "idle")
    /\ h \in OwnHandles /\ h \notin live
    /\ p \in RawPointers
    /\ Commit(ctor_raw(St, h, p, TRUE))
    /\ UNCHANGED pc
    /\ StepFrame

\* intrusive_ptr(...).swap(*this) begins: the temporary takes the pointer,
\* : m_pointer(p), and goes on to  if (m_pointer != nullptr && add_ref).
Replace(h, op, p, add_ref) ==
    /\ Commit(Construct(St, Tmp, p))
    /\ IF p # NULL /\ add_ref
       THEN Goto(Main, "add_ref", h, op, Tmp)
       ELSE Goto(Main, "swap", h, op, Tmp)
    /\ StepFrame

StepAssignCopy(h, r) ==
    /\ At(Main, "idle")
    /\ h \in live /\ r \in live /\ SameType(h, r)
    /\ IF m_pointer[r] # m_pointer[h]
       THEN Replace(h, "assign_copy", m_pointer[r], TRUE)
       ELSE UNCHANGED vars

StepAssignCopyConv(h, r) ==
    /\ At(Main, "idle")
    /\ h \in live /\ r \in live /\ Convertible(r, h)
    /\ Replace(h, "assign_copy_conv", get(St, r), TRUE)

StepAssignRaw(h, p) ==
    /\ At(Main, "idle")
    /\ h \in live /\ p \in RawPointers
    /\ Replace(h, "assign_raw", p, TRUE)

StepResetRaw(h, p) ==
    /\ At(Main, "idle")
    /\ h \in live /\ p \in RawPointers
    /\ Replace(h, "reset_raw", p, TRUE)

StepResetRawFlag(h, p, add_ref) ==
    /\ At(Main, "idle")
    /\ h \in live /\ p \in RawPointers
    /\ MayPass(p, add_ref)
    /\ Replace(h, "reset_raw_flag", p, add_ref)

\* The temporary is exchanged with *this without having counted its pointee.
StepAddRefSkipped ==
    /\ At(Main, "add_ref")
    /\ Commit(St)
    /\ Goto(Main, "swap", pc[Main].h, pc[Main].op, Tmp)
    /\ StepFrame

\* intrusive_ptr_add_ref(m_pointer) in the constructor of the temporary.
StepAddRef ==
    /\ At(Main, "add_ref")
    /\ Commit(intrusive_ptr_add_ref(St, m_pointer[Tmp]))
    /\ Goto(Main, "swap", pc[Main].h, pc[Main].op, Tmp)
    /\ StepFrame

\* .swap(*this)
StepSwap ==
    /\ At(Main, "swap")
    /\ Commit(swap(St, Tmp, pc[Main].h))
    /\ Goto(Main, "tmp_dtor", pc[Main].h, pc[Main].op, Tmp)
    /\ StepFrame

\* The destructor of handle d begins:  if (m_pointer != nullptr).
BeginDtor(d, h, op) ==
    LET S1 == [St EXCEPT !.live = @ \ {d}]
    IN  IF m_pointer[d] # NULL
        THEN Commit(S1) /\ Goto(Main, "release", h, op, d)
        ELSE Commit(Unwind(S1)) /\ Return(Main)

\* The full expression ends: the temporary is destroyed.
StepTmpDtor ==
    /\ At(Main, "tmp_dtor")
    /\ BeginDtor(Tmp, pc[Main].h, pc[Main].op)
    /\ StepFrame

\* A handle of the caller goes out of scope.
StepDtor(h) ==
    /\ At(Main, "idle")
    /\ h \in OwnHandles /\ h \in live
    /\ BeginDtor(h, h, "dtor")
    /\ StepFrame

\* reset(): if (m_pointer != nullptr) { intrusive_ptr_release(m_pointer); ...
StepReset(h) ==
    /\ At(Main, "idle")
    /\ h \in live
    /\ IF m_pointer[h] # NULL
       THEN /\ Goto(Main, "release", h, "reset", h)
            /\ UNCHANGED <<m_pointer, live, counter, alive, destroyed, ub>>
            /\ StepFrame
       ELSE UNCHANGED vars

\* intrusive_ptr_release has returned to the member that called it, and the
\* destructors it was called from run to their end; reset() goes on to clear.
ReleaseReturns(S) ==
    IF pc[Main].op = "reset"
    THEN Commit(Unwind(S)) /\ Goto(Main, "clear", pc[Main].h, "reset", pc[Main].h)
    ELSE Commit(Unwind(S)) /\ Return(Main)

\* if (--p->counter == 0), p being the pointer of the handle pc[Main].val.
StepRelease ==
    /\ At(Main, "release")
    /\ LET p == m_pointer[pc[Main].val]
       IN  IF alive[p]
           THEN LET S1 == decrement(St, p)
                IN  IF S1.counter[p] = 0
                    THEN /\ Commit(S1)
                         /\ Goto(Main, "delete", pc[Main].h, pc[Main].op,
                                 pc[Main].val)
                    ELSE ReleaseReturns(S1)
           ELSE /\ Commit([St EXCEPT !.ub = TRUE])
                /\ UNCHANGED pc
    /\ StepFrame

\* delete static_cast<const Derived*>(p): the pointee's destructor runs and
\* then the destructor of its member handle, which releases what it holds.
StepDelete ==
    /\ At(Main, "delete")
    /\ LET p == m_pointer[pc[Main].val]
           S1 == Delete(St, p)
           S2 == [S1 EXCEPT !.live = @ \ {Member(p)}]
       IN  IF m_pointer[Member(p)] # NULL
           THEN /\ Commit(S2)
                /\ Goto(Main, "release", pc[Main].h, pc[Main].op, Member(p))
           ELSE ReleaseReturns(S2)
    /\ StepFrame

\* reset(): m_pointer = nullptr.  The handle may have been a member of a
\* pointee that the release destroyed.
StepClear ==
    /\ At(Main, "clear")
    /\ IF pc[Main].h \in live
       THEN Commit([St EXCEPT !.m_pointer[pc[Main].h] = NULL])
       ELSE Commit([St EXCEPT !.ub = TRUE])
    /\ Return(Main)
    /\ StepFrame

NextSteps ==
    \/ \E h \in Handles, p \in Pointers : StepCtorRaw(h, p)
    \/ \E h, r \in Handles : StepAssignCopy(h, r)
    \/ \E h, r \in Handles : StepAssignCopyConv(h, r)
    \/ \E h \in Handles, p \in Pointers : StepAssignRaw(h, p)
    \/ \E h \in Handles, p \in Pointers : StepResetRaw(h, p)
    \/ \E h \in Handles, p \in Pointers, f \in BOOLEAN : StepResetRawFlag(h, p, f)
    \/ StepAddRef
    \/ StepSwap
    \/ StepTmpDtor
    \/ \E h \in Handles : StepDtor(h)
    \/ \E h \in Handles : StepReset(h)
    \/ StepRelease
    \/ StepDelete
    \/ StepClear

SpecSteps == InitSteps /\ [][NextSteps]_vars

\* ================================================================= claims
Holders(p) == {h \in Handles : h \in live /\ m_pointer[h] = p}

\* The references to p that are owed a release: the handles that hold it and
\* the pointers detach() handed to the caller.
Owed(p) == Cardinality(Holders(p)) + detachedRefs[p]

DestroyedNow(p) == destroyed'[p] = destroyed[p] + 1

\* C1 as stated: a pointee is destroyed at most once, and a step destroys it
\* exactly when it takes the number of live handles holding it to zero.
C1_DestroyedWhenLastHandleGoes ==
    [][\A p \in Pointees :
          /\ destroyed'[p] <= 1
          /\ DestroyedNow(p) <=> (Holders(p) # {} /\ Holders(p)' = {})]_vars

\* C1 (amended): a pointee is destroyed at most once, and a step destroys it
\* exactly when it takes the number of live handles holding it plus the
\* detached references to it not yet adopted to zero; a destroyed pointee
\* stays destroyed and is held by no handle.
C1_DestroyedWhenLastReferenceGoes ==
    [][\A p \in Pointees :
          /\ destroyed'[p] <= 1
          /\ DestroyedNow(p) <=> (Owed(p) > 0 /\ Owed(p)' = 0)
          /\ alive'[p] <=> destroyed'[p] = 0
          /\ ~alive'[p] => Holders(p)' = {}]_vars

C1_Witness ==
    \E p \in Pointees :
        /\ destroyed[p] = 1 /\ ~alive[p] /\ Owed(p) = 0
        /\ \E q \in Pointees : alive[q] /\ Cardinality(Holders(q)) = 2

\* ------------------------------------------------------------------ moves
MoveFrom(h, r) ==
    \/ CtorMove(h, r)
    \/ CtorMoveConv(h, r)
    \/ AssignMove(h, r)
    \/ AssignMoveConv(h, r)

SameUseCount(p) == counter'[p] = counter[p]

\* The step is recorded as one of ops.
Did(ops) == last'.op \in {Tag(name) : name \in ops}

\* C5 as stated: no move, in any form and into any destination, changes
\* use_count() of the pointee the source held.
C5_MoveKeepsUseCount ==
    [][Did(MoveOps) =>
         (\A h, r \in Handles :
             MoveFrom(h, r) /\ m_pointer[r] # NULL => SameUseCount(m_pointer[r]))]_vars

\* C5 (amended): a move leaves use_count() of the source's pointee as it was,
\* except the covariant move assignment into a destination that already
\* holds that pointee, which lowers it by exactly one (the destination's own
\* reference is released) and leaves the pointee alive.
C5_MoveKeepsUseCountUnlessConvOntoSame ==
    [][Did(MoveOps) =>
         (\A h, r \in Handles :
             MoveFrom(h, r) /\ m_pointer[r] # NULL =>
                 IF AssignMoveConv(h, r) /\ m_pointer[h] = m_pointer[r]
                 THEN /\ counter'[m_pointer[r]] = counter[m_pointer[r]] - 1
                      /\ alive'[m_pointer[r]]
                 ELSE SameUseCount(m_pointer[r]))]_vars

C5_Witness ==
    /\ last.op = "assign_move_conv"
    /\ m_pointer[DerivedHandle] = NULL
    /\ \E h \in Handles, p \in Pointees :
           /\ m_pointer[h] = p /\ counter[p] = 2
           /\ \E q \in Pointees : q # p /\ ~alive[q]

\* C6: after a move from r into a distinct handle object, r is empty.
C6_MovedFromIsEmpty ==
    [][Did(MoveOps) =>
         (\A h, r \in Handles :
             MoveFrom(h, r) /\ h # r => m_pointer'[r] = NULL)]_vars

\* ----------------------------------------------------------------- copies
CopyFrom(h, r) == CtorCopy(h, r) \/ CtorCopyConv(h, r)

Drop(h) == Dtor(h) \/ Reset(h)

\* C7: a copy constructed from a non-empty handle holds the same pointer and
\* raises use_count() by exactly one; destroying or resetting one of two
\* handles that share a pointee lowers use_count() by exactly one and leaves
\* the other handle holding the pointee, which stays alive.
C7_CopySharesAndCounts ==
    [][Did(CopyOps) =>
         (/\ \A h, r \in Handles :
                CopyFrom(h, r) /\ m_pointer[r] # NULL =>
                    /\ m_pointer'[h] = m_pointer[r]
                    /\ m_pointer'[r] = m_pointer[r]
                    /\ counter'[m_pointer[r]] = counter[m_pointer[r]] + 1
          /\ \A h, o \in Handles :
                (/\ o # h /\ o \in live
                 /\ m_pointer[h] # NULL /\ m_pointer[o] = m_pointer[h]
                 /\ Drop(h)) =>
                    /\ counter'[m_pointer[h]] = counter[m_pointer[h]] - 1
                    /\ m_pointer'[o] = m_pointer[h]
                    /\ alive'[m_pointer[h]])]_vars

C7_Witness ==
    /\ last.op = "dtor"
    /\ \E o \in Handles, p \in Pointees :
           /\ o \in live /\ m_pointer[o] = p /\ alive[p] /\ counter[p] = 1
           /\ Cardinality(live) = 1

\* ------------------------------------------------------------ assignments
\* h is assigned, from handle r, the pointer h already holds.
AssignSameCopy(h, r) ==
    /\ m_pointer[h] # NULL /\ m_pointer[r] = m_pointer[h]
    /\ AssignCopy(h, r) \/ AssignMove(h, r) \/ AssignCopyConv(h, r)

AssignSameMoveConv(h, r) ==
    /\ m_pointer[h] # NULL /\ m_pointer[r] = m_pointer[h]
    /\ AssignMoveConv(h, r)

\* h = h.get() and h.reset(h.get())
AssignSameRaw(h) ==
    /\ m_pointer[h] # NULL
    /\ AssignRaw(h, m_pointer[h]) \/ ResetRaw(h, m_pointer[h])

Untouched(p) ==
    /\ alive'[p] /\ destroyed'[p] = destroyed[p]
    /\ counter'[p] = counter[p]

\* C8 as stated: assigning to a handle the pointer it already holds leaves
\* the pointee alive and use_count() as it was, in every form.
C8_SamePointerAssignKeepsUseCount ==
    [][Did(AssignOps) =>
         (/\ \A h, r \in Handles :
                /\ AssignSameCopy(h, r) => Untouched(m_pointer[h])
                /\ AssignSameMoveConv(h, r) => Untouched(m_pointer[h])
          /\ \A h \in Handles :
                AssignSameRaw(h) => Untouched(m_pointer[h]))]_vars

\* C8 (amended): the same, except that a covariant move assignment from
\* another handle holding the same pointer lowers use_count() by exactly one
\* (the source is emptied), still without destroying the pointee.
C8_SamePointerAssignNeverDestroys ==
    [][Did(AssignOps) =>
         (/\ \A h, r \in Handles :
                /\ AssignSameCopy(h, r) => Untouched(m_pointer[h])
                /\ AssignSameMoveConv(h, r) =>
                       /\ alive'[m_pointer[h]]
                       /\ destroyed'[m_pointer[h]] = destroyed[m_pointer[h]]
                       /\ counter'[m_pointer[h]] = counter[m_pointer[h]] - 1
                       /\ m_pointer'[h] = m_pointer[h]
          /\ \A h \in Handles :
                AssignSameRaw(h) =>
                    Untouched(m_pointer[h]) /\ m_pointer'[h] = m_pointer[h])]_vars

C8_Witness ==
    /\ last.op = "same_pointer"
    /\ \E h \in Handles, p \in Pointees :
           /\ live = {h} /\ m_pointer[h] = p /\ counter[p] = 1 /\ alive[p]
           /\ detachedRefs[p] = 0

\* ------------------------------------------------------- detach and adopt
\* C9: detach() on a non-empty handle hands out the held pointer, empties the
\* handle and changes no counter; constructing a handle from that pointer
\* with add_ref = false holds it and changes no counter; the pointee is
\* destroyed by neither.
C9_DetachAdoptKeepsUseCount ==
    [][Did(RawOps) =>
         (\A h \in Handles :
             /\ Detach(h) /\ m_pointer[h] # NULL =>
                    /\ m_pointer'[h] = NULL
                    /\ detachedRefs'[m_pointer[h]] = detachedRefs[m_pointer[h]] + 1
                    /\ counter' = counter /\ alive' = alive
             /\ \A p \in Pointees :
                    CtorRaw(h, p, FALSE) /\ detachedRefs[p] > 0 =>
                        /\ m_pointer'[h] = p
                        /\ counter' = counter /\ alive' = alive /\ alive[p])]_vars

C9_Witness ==
    /\ last.op = "ctor_raw_adopt"
    /\ \E h, d \in Handles, p \in Pointees :
           /\ h # d /\ d \in live /\ m_pointer[d] = NULL
           /\ m_pointer[h] = p /\ counter[p] = 1 /\ alive[p]
           /\ detachedRefs[p] = 0

\* C10: the constructor from a raw pointer with add_ref = false changes no
\* counter (a pointee that carries one reference has use_count() 1 after it,
\* not 2); with add_ref = true it raises use_count() of a non-null pointer
\* by exactly one.
C10_AddRefFlag ==
    [][Did(RawOps) =>
         (\A h \in Handles, p \in Pointers :
             /\ CtorRaw(h, p, FALSE) =>
                    /\ counter' = counter
                    /\ m_pointer'[h] = p
                    /\ p # NULL /\ counter[p] = 1 => counter'[p] = 1
             /\ CtorRaw(h, p, TRUE) /\ p # NULL =>
                    /\ counter'[p] = counter[p] + 1
                    /\ m_pointer'[h] = p
                    /\ \A q \in Pointees \ {p} : counter'[q] = counter[q])]_vars

C10_Witness ==
    /\ last.op = "ctor_raw_adopt"
    /\ \E h \in Handles, p \in Pointees :
           /\ Holders(p) = {h} /\ counter[p] = 1 /\ alive[p]

\* ---------------------------------------------------------------- threads
ThreadHolders(p) == {h \in ThreadHandles : h \in live /\ m_pointer[h] = p}

AllIdle == \A t \in Threads : pc[t].at = "idle"

\* The threads whose decrement of p's counter returned zero and whose delete
\* has not run yet.
SawZero(p) ==
    {t \in Threads :
        /\ m_pointer[pc[t].h] = p
        /\ \/ pc[t].at = "test" /\ pc[t].val = 0
           \/ pc[t].at = "delete"}

\* C2: among the threads releasing their handles to one pointee, exactly one
\* decrement returns zero and that thread alone deletes the pointee: never
\* two, and once every handle is released, not none.
C2_ExactlyOneDestroys ==
    /\ destroyed[SharedPointee] + Cardinality(SawZero(SharedPointee)) <= 1
    /\ counter[SharedPointee] = 0 <=>
           destroyed[SharedPointee] + Cardinality(SawZero(SharedPointee)) = 1
    /\ AllIdle /\ ThreadHolders(SharedPointee) = {} =>
           destroyed[SharedPointee] = 1

C2_Witness ==
    /\ AllIdle /\ live = {}
    /\ destroyed[SharedPointee] = 1 /\ counter[SharedPointee] = 0

LoopsFinished ==
    \A t \in Threads :
        pc[t].at = "idle" /\ iter[t] = MaxIter /\ Loc(t) \notin live

\* C3: when every thread has finished its rounds of copying its own handle
\* and destroying the copy, use_count() is the number of the threads' own
\* handles again.
C3_LoopLeavesUseCount ==
    LoopsFinished =>
        /\ counter[SharedPointee] = NumThreads
        /\ ThreadHolders(SharedPointee) = {Own(t) : t \in Threads}
        /\ alive[SharedPointee]

C3_Witness == LoopsFinished /\ counter[SharedPointee] = NumThreads

\* The handle h has run its decrement in the destructor or reset() its thread
\* is in: it holds no reference any more, and the member does not touch the
\* pointee again.
Released(h) ==
    \E t \in Threads : pc[t].h = h /\ pc[t].at \in {"test", "clear"}

\* C4: no thread runs add_ref, release, delete or a dereference on a pointee
\* that is destroyed, and the pointee of every non-empty handle that has not
\* yet run the decrement of its own destructor or reset() is alive.
C4_NoUseAfterDestroy ==
    /\ ub = FALSE
    /\ \A h \in ThreadHandles :
           h \in live /\ m_pointer[h] # NULL /\ ~Released(h) =>
               alive[m_pointer[h]]

C4_Witness ==
    \E t, u \in Threads :
        /\ pc[t].at = "add_ref" /\ pc[u].at = "test" /\ pc[u].op = "reset"
        /\ alive[SharedPointee] /\ ub = FALSE

\* -------------------------------------------------------------- accounting
\* C11: between operations use_count() of a pointee that is alive is the
\* number of handles holding it plus the number of detached references to it
\* not yet adopted, no hook ever ran on a destroyed pointee, and a destroyed
\* pointee is held by no handle: every handle that gave the pointer up by
\* destruction, reset or reassignment took one away, and every handle that
\* gave it up by a move or by detach() took nothing away.
C11_UseCountIsReferences ==
    /\ ub = FALSE
    /\ \A p \in Pointees :
           IF alive[p] THEN counter[p] = Owed(p) ELSE Holders(p) = {}

C11_Witness ==
    \E p \in Pointees :
        /\ alive[p] /\ Cardinality(Holders(p)) = 2 /\ detachedRefs[p] = 1
        /\ counter[p] = 3
        /\ \E q \in Pointees : ~alive[q]

\* ---------------------------------------------------- the counter's range
\* intrusive_ptr(p, false) on a pointee that was just constructed (counter 0)
\* and of which the caller holds no counted reference: the handle takes over
\* a reference that was never counted, which the caller now owes.  The
\* caller does this to one pointee at most.
CtorRawUncounted(h, p) ==
    /\ ~ub /\ h \notin live
    /\ last' = Op("ctor_raw_uncounted")
    /\ alive[p] /\ counter[p] = 0 /\ Owed(p) = 0
    /\ \A q \in Pointees : detachedRefs[q] >= 0
    /\ Commit(ctor_raw(St, h, p, FALSE))
    /\ detachedRefs' = [detachedRefs EXCEPT ![p] = @ - 1]
    /\ UNCHANGED <<watch, pc, iter>>

NextUncounted ==
    \/ Next
    \/ \E h \in Handles, p \in Pointees : CtorRawUncounted(h, p)

SpecUncounted == Init /\ [][NextUncounted]_vars

\* C12 as stated: whatever the handles do, adopting a just-constructed
\* pointee with add_ref = false included, no counter is ever decremented
\* from 0 (a model value below 0 is an unsigned value that has wrapped).
C12_CounterNeverWraps == \A p \in Pointees : counter[p] >= 0

\* C12 (amended): the counter of a pointee is decremented from 0 only after
\* a handle adopted that pointee with add_ref = false although no counted
\* reference to it was held; then the release of the last handle wraps the
\* counter to 2^32 - 1 and does not destroy the pointee.  Without such an
\* adoption the counter stays at 0 or above and is the number of references.
C12_CounterWrapsOnlyAfterUncountedAdoption ==
    \A p \in Pointees :
        /\ detachedRefs[p] >= 0 =>
               /\ counter[p] >= 0
               /\ alive[p] => counter[p] = Owed(p)
        /\ counter[p] < 0 =>
               /\ counter[p] = UIntDec(0) /\ Holders(p) = {}
               /\ alive[p] /\ destroyed[p] = 0

C12_Witness ==
    \E p \in Pointees :
        /\ counter[p] = UIntDec(0) /\ alive[p] /\ Holders(p) = {}
        /\ \E q \in Pointees : q # p /\ counter[q] = 1 /\ detachedRefs[q] = 0

\* ------------------------------------------------------ null and empty
\* The step ran no hook at all.
NoHook == counter' = counter /\ alive' = alive /\ destroyed' = destroyed /\ ub' = ub

\* The step ran release once, on p when p is not null, and no other hook.
ReleasedOnce(p) ==
    IF p = NULL
    THEN NoHook
    ELSE /\ counter' = [counter EXCEPT ![p] = @ - 1]
         /\ alive' = [alive EXCEPT ![p] = (counter[p] # 1)]
         /\ destroyed' = [destroyed EXCEPT ![p] = IF counter[p] = 1 THEN @ + 1 ELSE @]
         /\ ub' = ub

CtorFromEmpty(h, r) ==
    /\ m_pointer[r] = NULL
    /\ CtorCopy(h, r) \/ CtorCopyConv(h, r) \/ CtorMove(h, r) \/ CtorMoveConv(h, r)

AssignFromEmpty(h, r) ==
    /\ m_pointer[r] = NULL
    /\ \/ AssignCopy(h, r) \/ AssignCopyConv(h, r)
       \/ AssignMove(h, r) \/ AssignMoveConv(h, r)

AssignNull(h) ==
    \/ AssignRaw(h, NULL) \/ ResetRaw(h, NULL)
    \/ \E f \in BOOLEAN : ResetRawFlag(h, NULL, f)

DropEmpty(h) == m_pointer[h] = NULL /\ Drop(h)

\* C13: a handle constructed from a null raw pointer (with either flag) or
\* from an empty handle is empty and no hook runs; a handle that is assigned
\* a null raw pointer or an empty handle, or reset to null, is empty
\* afterwards, add_ref runs on nothing and release runs once on the pointee
\* the handle held, if any; destroying or resetting an empty handle runs no
\* hook.
C13_NullIsLegal ==
    [][Did(NullOps) =>
         (/\ \A h \in Handles :
                /\ (\E f \in BOOLEAN : CtorRaw(h, NULL, f)) =>
                       m_pointer'[h] = NULL /\ h \in live' /\ NoHook
                /\ AssignNull(h) =>
                       m_pointer'[h] = NULL /\ ReleasedOnce(m_pointer[h])
                /\ DropEmpty(h) => m_pointer'[h] = NULL /\ NoHook
          /\ \A h, r \in Handles :
                /\ CtorFromEmpty(h, r) =>
                       /\ m_pointer'[h] = NULL /\ h \in live'
                       /\ m_pointer'[r] = NULL /\ NoHook
                /\ AssignFromEmpty(h, r) =>
                       /\ m_pointer'[h] = NULL /\ m_pointer'[r] = NULL
                       /\ ReleasedOnce(m_pointer[h]))]_vars

C13_Witness ==
    /\ last.op = "null_source"
    /\ \E h \in Handles, p, q \in Pointees :
           /\ h \in live /\ m_pointer[h] = NULL
           /\ ~alive[p] /\ destroyed[p] = 1 /\ counter[p] = 0
           /\ alive[q] /\ counter[q] = 1 /\ Cardinality(Holders(q)) = 1

\* ------------------------------------------------ copies of the counter base
\* One pointee has been allocated; the others are storage in which copies of
\* a pointee can be constructed.
InitBase ==
    /\ m_pointer = [h \in Handles \cup {Tmp} |-> NULL]
    /\ live = {}
    /\ counter = [p \in Pointees |-> 0]
    /\ alive = [p \in Pointees |-> p = SharedPointee]
    /\ destroyed = [p \in Pointees |-> 0]
    /\ ub = FALSE
    /\ detachedRefs = [p \in Pointees |-> 0]
    /\ last = [op |-> "init", again |-> FALSE]
    /\ pc = [t \in Threads |-> Idle]
    /\ iter = [t \in Threads |-> 0]
    /\ watch = BaseOps

\* new Derived(*p): the object q is constructed as a copy of the pointee p.
CopyConstructPointee(q, p) ==
    /\ ~ub /\ alive[p] /\ ~alive[q] /\ destroyed[q] = 0
    /\ last' = Op("ref_counter_copy_ctor")
    /\ Commit(ref_counter_copy_ctor(St, q, p))
    /\ UNCHANGED <<watch, pc, iter>>
    /\ UNCHANGED detachedRefs

\* *q = *p, on two pointees (or on one).
CopyAssignPointee(q, p) ==
    /\ ~ub /\ alive[p] /\ alive[q]
    /\ last' = Op("ref_counter_copy_assign")
    /\ Commit(ref_counter_copy_assign(St, q, p))
    /\ UNCHANGED <<watch, pc, iter>>
    /\ UNCHANGED detachedRefs

NextBase ==
    \/ NextAttached
    \/ \E q, p \in Pointees : CopyConstructPointee(q, p)
    \/ \E q, p \in Pointees : CopyAssignPointee(q, p)

SpecBase == InitBase /\ [][NextBase]_vars

\* C14: copy-constructing a pointee gives the new instance a counter of 0
\* and changes no other counter; copy-assigning a pointee changes no counter
\* and no handle; with such copies made, the counter of every pointee is
\* still the number of references to that pointee, and each pointee is
\* destroyed once, at the step that takes its own references to zero.
C14_CountsAreNotCopied ==
    [][/\ Did(BaseOps) =>
             \A q, p \in Pointees :
                 /\ CopyConstructPointee(q, p) =>
                        /\ counter' = [counter EXCEPT ![q] = 0]
                        /\ alive' = [alive EXCEPT ![q] = TRUE]
                        /\ m_pointer' = m_pointer
                 /\ CopyAssignPointee(q, p) =>
                        /\ counter' = counter /\ alive' = alive
                        /\ m_pointer' = m_pointer
       /\ \A p \in Pointees :
             /\ alive'[p] => counter'[p] = Owed(p)'
             /\ destroyed'[p] <= 1
             /\ DestroyedNow(p) <=> (Owed(p) > 0 /\ Owed(p)' = 0)]_vars

C14_Witness ==
    /\ last.op = "ref_counter_copy_assign"
    /\ \E p, q \in Pointees :
           /\ p # q /\ alive[p] /\ alive[q]
           /\ counter[p] = 2 /\ counter[q] = 1

\* ------------------------------------------------------------------- swap
\* The program state after the step, as a value.
StAfter == [m_pointer |-> m_pointer', live |-> live', counter |-> counter',
            alive |-> alive', destroyed |-> destroyed', ub |-> ub']

\* C15: swap(a, b) leaves a holding what b held and b holding what a held
\* (null included), changes no other handle, no counter, and destroys no
\* pointee; swapping the two again gives the state before the swap back, and
\* swapping a handle with itself changes nothing.
C15_SwapExchangesPointers ==
    [][Did(SwapOps) =>
         (\A a, b \in Handles :
             Swap(a, b) =>
                 /\ m_pointer'[a] = m_pointer[b] /\ m_pointer'[b] = m_pointer[a]
                 /\ \A h \in Handles \ {a, b} : m_pointer'[h] = m_pointer[h]
                 /\ live' = live /\ NoHook
                 /\ swap(StAfter, a, b) = St
                 /\ swap(StAfter, b, a) = St
                 /\ a = b => StAfter = St)]_vars

C15_Witness ==
    /\ last.op = "swap"
    /\ \E a, b \in Handles, p \in Pointees :
           /\ a # b /\ a \in live /\ b \in live /\ SameType(a, b)
           /\ m_pointer[a] = NULL /\ m_pointer[b] = p
           /\ counter[p] = 1 /\ alive[p]

\* ------------------------------------------------------------ comparisons
\* a == b, a != b, b == a and b != a on two handles (of any two types).
CompareHandles(a, b) ==
    /\ ~ub /\ a \in live /\ b \in live
    /\ last' = Op(CmpTag(op_eq(St, a, b), op_ne(St, a, b),
                         op_eq(St, b, a), op_ne(St, b, a)))
    /\ Commit(St)
    /\ UNCHANGED <<watch, pc, iter>>
    /\ UNCHANGED detachedRefs

\* a == p, a != p, p == a and p != a on a handle and a raw pointer.
CompareRaw(a, p) ==
    /\ ~ub /\ a \in live
    /\ last' = Op(CmpTag(op_eq_raw(St, a, p), op_ne_raw(St, a, p),
                         op_raw_eq(St, p, a), op_raw_ne(St, p, a)))
    /\ Commit(St)
    /\ UNCHANGED <<watch, pc, iter>>
    /\ UNCHANGED detachedRefs

NextCompare ==
    \/ NextAttached
    \/ \E a, b \in Handles : CompareHandles(a, b)
    \/ \E a \in Handles, p \in Pointers : CompareRaw(a, p)

SpecCompare == InitCompare /\ [][NextCompare]_vars

\* The four forms agreed on "equal" exactly when x and y are one pointer, and
\* on "unequal" exactly when they are not.
Compared(x, y) ==
    /\ last'.op = "cmp_equal" <=> x = y
    /\ last'.op = "cmp_unequal" <=> x # y

\* C16: == holds exactly when the two pointers are the same pointer, in
\* either order of the operands and between a handle and a raw pointer, and
\* != is its negation; so a handle equals itself, two empty handles are
\* equal, two handles that hold one pointee are equal whatever its
\* use_count(); a comparison changes no handle and no counter.
C16_ComparisonsArePointerIdentity ==
    [][Did(CmpOps) =>
         (/\ \A a, b \in Handles :
                CompareHandles(a, b) =>
                    /\ Compared(m_pointer[a], m_pointer[b])
                    /\ a = b => last'.op = "cmp_equal"
                    /\ m_pointer[a] = NULL /\ m_pointer[b] = NULL =>
                           last'.op = "cmp_equal"
                    /\ m_pointer' = m_pointer /\ NoHook
          /\ \A a \in Handles, p \in Pointers :
                CompareRaw(a, p) =>
                    /\ Compared(m_pointer[a], p)
                    /\ m_pointer' = m_pointer /\ NoHook)]_vars

C16_Witness ==
    /\ last.op = "cmp_equal"
    /\ \E a, b \in Handles, p \in Pointees :
           /\ a # b /\ live = {a, b}
           /\ m_pointer[a] = p /\ m_pointer[b] = p /\ counter[p] = 2

\* ------------------------------------------------ acquire before release
ReplacingAt(labels) ==
    pc[Main].op \in ReplacingOps /\ pc[Main].at \in labels

\* The pointer is null, or its pointee is alive and counted.
Counted(p) == p # NULL => alive[p] /\ counter[p] >= 1

\* C17: in copy assignment, converting copy assignment, raw-pointer
\* assignment, reset(p) and reset(p, true) the new pointee Q has been counted
\* for the temporary before the exchange, when the old pointee P has not
\* been decremented yet; from the exchange on, through the release of P and
\* every destruction it sets off, the handle holds Q and Q is alive and
\* counted; when the operation has returned every handle holds a live
\* pointee or nothing.
C17_AcquireBeforeRelease ==
    /\ ReplacingAt({"swap"}) =>
           /\ Counted(m_pointer[Tmp])
           /\ Counted(m_pointer[pc[Main].h])
    /\ ReplacingAt({"tmp_dtor", "release", "delete"}) /\ pc[Main].h \in live =>
           Counted(m_pointer[pc[Main].h])
    /\ pc[Main].at = "idle" => \A h \in live : Counted(m_pointer[h])

\* h = h->next with use_count 1 on both: P is destroyed, its member is
\* giving up its reference to Q, and the handle holds Q.
C17_Witness ==
    /\ ReplacingAt({"release"})
    /\ \E P, Q \in Pointees :
           /\ P # Q /\ ~alive[P] /\ alive[Q] /\ counter[Q] = 2
           /\ m_pointer[Tmp] = P
           /\ pc[Main].val = Member(P) /\ m_pointer[Member(P)] = Q
           /\ pc[Main].h \in OwnHandles /\ m_pointer[pc[Main].h] = Q
           /\ {x \in live : m_pointer[x] = Q} = {pc[Main].h}

\* ------------------------------------------------- reset(p) as assignment
\* In the state at hand, reset(p, flag) and h = intrusive_ptr(p, flag) give
\* one result for every handle, pointer and flag, and so do reset(p), h = p.
ResetIsAssignment ==
    \A h \in live, p \in RawPointers :
        /\ \A f \in BOOLEAN :
               reset_raw_flag(St, h, p, f) = assign_temporary(St, h, p, f)
        /\ reset_raw(St, h, p) = assign_raw(St, h, p)

\* C18: for every handle, every pointer p (null, the handle's own, another)
\* and both flag values, h.reset(p, flag) ends in the state that
\* h = intrusive_ptr(p, flag) ends in: the same pointer in every handle, the
\* same counter in every pointee, the same pointees destroyed; h.reset(p)
\* ends in the state that h = p ends in.
C18_ResetIsAssignment ==
    /\ []ResetIsAssignment
    /\ [][Did(ResetOps) =>
            \A h \in Handles, p \in Pointers :
                m_pointer'[h] = p /\ ResetRawFlag(h, p, FALSE) =>
                    StAfter = assign_temporary(St, h, p, FALSE)]_vars

\* reset(p, false) has just handed a handle the reference to p that detach()
\* gave the caller, and the handle is the only owner of p.
C18_Witness ==
    /\ last.op = "reset_raw_adopt"
    /\ \E h \in live, p \in Pointees :
           /\ m_pointer[h] = p /\ alive[p]
           /\ counter[p] = 1 /\ Holders(p) = {h} /\ detachedRefs[p] = 0

\* --------------------------------------------- destruction and its handle
\* C19: in no step of reset(), reset(p) or an assignment does a handle that
\* exists (one whose own destructor is not running) hold a non-null pointer
\* to a pointee whose destruction has started: the handle that set the
\* destruction off has given the pointer up before the pointee's destructor
\* runs.
C19_NoHandleHoldsPointeeInDestruction ==
    pc[Main].op # "dtor" =>
        \A h \in live : m_pointer[h] # NULL => alive[m_pointer[h]]

\* ------------------------------------------ a handle shared by two threads
Dangling(c) == c \in live /\ m_pointer[c] # NULL /\ ~alive[m_pointer[c]]

\* C20: the handle object is not safe for concurrent mutation.  When other
\* threads copy-construct from H while its owner resets or destroys H, which
\* held the only reference, a hook or a second delete can run on the
\* destroyed pointee, and when one has, a copy
\* holds the destroyed pointee or the owner was about to delete it a second
\* time; H itself holds a destroyed pointee only inside the reset() or the
\* destructor its owner is running on it.
C20_SharedHandleRace ==
    /\ Dangling(H) =>
           /\ pc[Owner].op \in {"reset", "dtor"}
           /\ pc[Owner].h = H /\ pc[Owner].at \in {"test", "delete", "clear"}
    /\ ub =>
           \/ \E t \in Threads \ {Owner}, c \in ThreadHandles :
                  c \in Mine(t) /\ Dangling(c)
           \/ Dangling(H) /\ pc[Owner].at = "delete"

\* The copying thread read H's pointer, the owner's reset() or destructor
\* then destroyed the pointee and emptied H, and the copy's add_ref ran on the
\* destroyed pointee: the copy is left with a dangling pointer.
C20_Witness ==
    /\ ub
    /\ destroyed[SharedPointee] = 1 /\ ~alive[SharedPointee]
    /\ counter[SharedPointee] = 0
    /\ m_pointer[H] = NULL /\ pc[Owner].at = "idle"
    /\ \E t \in Threads \ {Owner}, c \in ThreadHandles :
           /\ c \in Mine(t) /\ pc[t].at = "idle"
           /\ c \in live /\ m_pointer[c] = SharedPointee

\* ------------------------------------------------------------ type invariant
TypeOK ==
    /\ m_pointer \in [Handles \cup {Tmp} -> Pointers]
    /\ live \subseteq Handles
    /\ alive \in [Pointees -> BOOLEAN]
    /\ ub = FALSE
    /\ \A h \in Handles : m_pointer[h] # NULL => h \in live /\ alive[m_pointer[h]]

====
